---------------------------- MODULE Spec2Model ----------------------------
(***************************************************************************)
(* A model of epydoc's Graphviz graph module                               *)
(* (src/src/epydoc/docwriter/dotgraph.py): the DotGraph class (uid         *)
(* allocation, link, render, write) and the three graph builders           *)
(* (package_tree_graph, class_tree_graph, import_graph).                   *)
(*                                                                         *)
(* Strings are sequences of one-character strings, so that the regular     *)
(* expressions and the string formatting of the source are computed, not   *)
(* assumed.  None is the model's value for Python's None.                  *)
(***************************************************************************)
EXTENDS Integers, Sequences, FiniteSets, TLC

VARIABLES
    \* ---- DotGraph.__init__ (process-wide registry and the graphs built)
    _uids,        \* DotGraph._uids: the set of uids issued so far
    graphs,       \* the DotGraphs constructed so far: <<[title, uid], ...>>
    \* ---- the fields of the DotGraph that link and the builders work on
    body,          \* DotGraph.body: a string
    node_defaults, \* DotGraph.node_defaults: attribute mapping
    edge_defaults, \* DotGraph.edge_defaults: attribute mapping
    nodes,         \* DotGraph.nodes: <<[id, attribs], ...>>
    edges,         \* DotGraph.edges: <<[start, end, attribs], ...>>
    \* ---- DotGraph.link
    linker,        \* docstring_linker.url_for, as a function of the name
    linkCalls,     \* how many times link() has returned
    orig,          \* the graph as it was before the first link() (history)
    \* ---- DotGraph.render and DotGraph.write, and the renderer subprocess
    popen4,        \* TRUE when `import subprocess` fails: popen2.Popen4 is used
    rpc,           \* where write()/render() stand
    alive,         \* the subprocess has not exited
    exitval,       \* its exit code, once it has
    stdinLeft,     \* chunks of to_dotfile() the parent has still to write
    stdinBuf,      \* chunks in the pipe to the child's standard input
    outBuf,        \* data in the pipe behind from_child, not yet read
    errBuf,        \* data in the pipe behind pipe.stderr (Popen only)
    outClosed,     \* the child has closed its standard output
    nOut, nErr,    \* chunks the child has written to stdout / stderr
    written,       \* everything the child wrote to its standard output (history)
    readAcc,       \* what the from_child.read() in progress has read so far
    result,        \* render's local `result`
    ret,           \* what render returned (UNSET before it returns)
    warnings,      \* calls of log.warning
    fileOpen,      \* write's file object `out` is open
    fileOpens,     \* how many times write opened the file
    fileData,      \* the content of the file at `filename`
    wret,          \* what write returned (UNSET before; RAISED: an exception left it)
    \* ---- the graph builders and the object model they are given
    kind,          \* which builder runs: "package", "class" or "import"
    packages,      \* package_tree_graph's `packages` / class_tree_graph's `bases`
    submodules,    \* module.submodules / cls.subclasses, per entity: a list
    imodules,      \* import_graph's `modules`: a list of ModuleDocs
    imports,       \* dst.imports, per module: a list of dotted names
    docindex,      \* the dotted names docindex.get_valdoc gives a ModuleDoc for
    options,       \* options.get('dir'): a direction, or None when omitted
    context,       \* the builder's `context` argument
    bpc,           \* where the builder stands
    queue,         \* the work list `queue`
    qi,            \* the position of `for module in queue`
    modules,       \* the Set `modules` / `classes`
    expanded,      \* how often each entity was taken from the queue (history)
    nodes_dict,    \* the dict `nodes` add_valdoc_nodes returns: val_doc -> node
    pending,       \* what the running `for ... in <Set>` has still to visit
    edges_set,     \* import_graph's Set `edges` of (src, dst)
    _next_id       \* DotGraphNode._next_id

uidVars == <<_uids, graphs>>
graphVars == <<body, node_defaults, edge_defaults, nodes, edges>>
linkVars == <<linker, linkCalls, orig>>
childVars == <<alive, exitval, stdinBuf, outBuf, errBuf, outClosed, nOut, nErr,
               written>>
parentVars == <<rpc, stdinLeft, readAcc, result, ret, warnings>>
fileVars == <<fileOpen, fileOpens, fileData, wret>>
renderVars == <<popen4, childVars, parentVars, fileVars>>
modelVars == <<kind, packages, submodules, imodules, imports, docindex, options,
               context>>
buildVars == <<modelVars, bpc, queue, qi, modules, expanded, nodes_dict, pending,
               edges_set, _next_id>>
renderEnv == <<popen4, uidVars, graphVars, linkVars, buildVars>>
vars == <<uidVars, graphVars, linkVars, renderVars, buildVars>>

\* Python's None: a value that is no string (a string's elements are single
\* characters) and no dotted name of the model
None == <<"None">>

(***************************************************************************)
(* Characters.                                                             *)
(***************************************************************************)
UPPER == <<"A","B","C","D","E","F","G","H","I","J","K","L","M",
           "N","O","P","Q","R","S","T","U","V","W","X","Y","Z">>
LOWER == <<"a","b","c","d","e","f","g","h","i","j","k","l","m",
           "n","o","p","q","r","s","t","u","v","w","x","y","z">>
DIGITS == <<"0","1","2","3","4","5","6","7","8","9">>

Range(s) == {s[i] : i \in DOMAIN s}

\* \w of Python's re (no LOCALE/UNICODE flag): [a-zA-Z0-9_]
IsWordChar(c) == c \in Range(UPPER) \cup Range(LOWER) \cup Range(DIGITS) \cup {"_"}

\* \s of Python's re: [ \t\n\r\f\v]
IsSpace(c) == c \in {" ", "\t", "\n", "\r", "\f"}

\* str.lower() on one character
LowerChar(c) ==
    IF c \in Range(UPPER)
    THEN LOWER[CHOOSE i \in DOMAIN UPPER : UPPER[i] = c]
    ELSE c

\* '%s' % n for a natural number n: its decimal digits
RECURSIVE Decimal(_)
Decimal(n) ==
    IF n < 10 THEN <<DIGITS[n + 1]>>
    ELSE Decimal(n \div 10) \o <<DIGITS[(n % 10) + 1]>>

(***************************************************************************)
(* DotGraph.__init__: the uid of a new graph.                              *)
(***************************************************************************)
\* re.sub(r'\W', '_', title).lower()
BaseUid(title) ==
    [i \in DOMAIN title |->
        LowerChar(IF IsWordChar(title[i]) THEN title[i] ELSE "_")]

\* '%s_%s' % (uid, n)
UidN(uid, n) == uid \o <<"_">> \o Decimal(n)

\* A slip in the disambiguation loop: the while condition is never true.
FirstFreeNoLoop(uid, n, used) == n

\* n = 2; while ('%s_%s' % (uid, n)) in _uids: n += 1
RECURSIVE FirstFree(_, _, _)
FirstFree(uid, n, used) ==
    IF UidN(uid, n) \in used THEN FirstFree(uid, n + 1, used) ELSE n

\* the uid DotGraph.__init__ gives a graph titled `title` when `used` are taken
NewUid(title, used) ==
    LET uid == BaseUid(title)
    IN  IF uid \in used THEN UidN(uid, FirstFree(uid, 2, used)) ELSE uid

\* The titles graphs are constructed with.
Titles ==
    { <<>>,
      <<"a">>, <<"A">>, <<"a","!">>, <<"a","?">>, <<"a","_">>,
      <<"a","_","2">>, <<"A"," ","2">>, <<"a","_","3">>,
      <<"a","_","2","_","2">> }

MaxGraphs == 4

\* an attribute mapping with no key
NoAttribs == [k \in {} |-> None]

\* the variables of the parts of the module a specification does not exercise
IdleGraph ==
    /\ body = <<>>
    /\ node_defaults = NoAttribs
    /\ edge_defaults = NoAttribs
    /\ nodes = <<>>
    /\ edges = <<>>

IdleLink ==
    /\ linker = NoAttribs
    /\ linkCalls = 0
    /\ orig = None

\* a value no call has returned yet
UNSET == <<"unset">>
\* an exception propagated out of the call
RAISED == <<"raised">>
\* the content the file at `filename` had before write was called
OLD == <<"old">>

IdleRender ==
    /\ popen4 = FALSE
    /\ rpc = "idle"
    /\ alive = FALSE /\ exitval = 0
    /\ stdinLeft = 0 /\ stdinBuf = 0
    /\ outBuf = <<>> /\ errBuf = <<>> /\ outClosed = FALSE
    /\ nOut = 0 /\ nErr = 0 /\ written = <<>>
    /\ readAcc = <<>> /\ result = <<>> /\ ret = UNSET /\ warnings = 0
    /\ fileOpen = FALSE /\ fileOpens = 0 /\ fileData = OLD /\ wret = UNSET

IdleBuild ==
    /\ kind = "none"
    /\ packages = <<>> /\ submodules = NoAttribs
    /\ imodules = <<>> /\ imports = NoAttribs /\ docindex = {}
    /\ options = None /\ context = None
    /\ bpc = "idle"
    /\ queue = <<>> /\ qi = 1 /\ modules = {} /\ expanded = NoAttribs
    /\ nodes_dict = NoAttribs /\ pending = {} /\ edges_set = {}
    /\ _next_id = 0

InitUid ==
    /\ _uids = {}
    /\ graphs = <<>>
    /\ IdleGraph
    /\ IdleLink
    /\ IdleRender
    /\ IdleBuild

\* DotGraph(title): lines 95-105 (the other fields are set by the builders)
Construct(title) ==
    /\ Len(graphs) < MaxGraphs
    /\ LET uid == NewUid(title, _uids)
       IN  /\ _uids' = _uids \cup {uid}
           /\ graphs' = Append(graphs, [title |-> title, uid |-> uid])
    /\ UNCHANGED <<graphVars, linkVars, renderVars, buildVars>>

NextUid == \E title \in Titles : Construct(title)

SpecUid == InitUid /\ [][NextUid]_vars

(***************************************************************************)
(* C1: after any sequence of DotGraph constructions (equal titles, titles  *)
(* whose sanitized forms collide, titles that look like a disambiguated    *)
(* uid) the uids of the graphs are pairwise distinct, every issued uid is  *)
(* in the registry _uids, and the registry only grows.                     *)
(***************************************************************************)
UidsDistinct ==
    \A i, j \in DOMAIN graphs : i # j => graphs[i].uid # graphs[j].uid

UidsRegistered == \A i \in DOMAIN graphs : graphs[i].uid \in _uids

C1_UidsUnique ==
    /\ [](UidsDistinct /\ UidsRegistered)
    /\ [][_uids \subseteq _uids']_vars

\* a graph titled 'a_2' got 'a_2', and a later graph titled 'a' (third of its
\* base) had to skip the taken 'a_2' and got 'a_3'
C1_Witness ==
    \E i, j, k \in DOMAIN graphs :
        /\ i < j /\ j < k
        /\ graphs[i].uid = <<"a">>
        /\ graphs[j].title = <<"a","_","2">> /\ graphs[j].uid = <<"a","_","2">>
        /\ BaseUid(graphs[k].title) = <<"a">>
        /\ graphs[k].uid = <<"a","_","3">>

(***************************************************************************)
(* DotGraph.link and DotGraph._link_href.                                  *)
(***************************************************************************)
\* s[i], or "" past either end of s
At(s, i) == IF i \in DOMAIN s THEN s[i] ELSE ""

\* [\w\.]
IsNameChar(c) == IsWordChar(c) \/ c = "."

\* ['\"]
IsQuote(c) == c \in {"'", "\""}

\* \s* from position i: the first position that holds no whitespace
RECURSIVE SkipSpaces(_, _)
SkipSpaces(s, i) == IF IsSpace(At(s, i)) THEN SkipSpaces(s, i + 1) ELSE i

\* [\w\.]* from position i: the first position that holds no name character
RECURSIVE SkipName(_, _)
SkipName(s, i) == IF IsNameChar(At(s, i)) THEN SkipName(s, i + 1) ELSE i

\* A slip in the pattern: the angle brackets are optional, r'^<?([\w\.]+)>?$'.
HrefNameLax(v) ==
    LET b == IF At(v, 1) = "<" THEN 2 ELSE 1
        e == SkipName(v, b)
        f == IF At(v, e) = ">" THEN e + 1 ELSE e
    IN  IF e > b /\ (f = Len(v) + 1 \/ (f = Len(v) /\ v[f] = "\n"))
        THEN SubSeq(v, b, e - 1)
        ELSE None

\* re.match(r'^<([\w\.]+)>$', v): group 1, or None when v does not match
\* ($ matches at the end and before a newline that ends the string)
HrefName(v) ==
    LET e == SkipName(v, 2)
    IN  IF /\ At(v, 1) = "<"
           /\ e > 2
           /\ At(v, e) = ">"
           /\ (e = Len(v) \/ (e + 1 = Len(v) /\ v[e + 1] = "\n"))
        THEN SubSeq(v, 2, e - 1)
        ELSE None

\* docstring_linker.url_for(name): a URL, '' or None
UrlFor(lk, name) == IF name \in DOMAIN lk THEN lk[name] ELSE None

\* `if url:`
Truthy(url) == url # None /\ url # <<>>

\* _link_href(attribs, docstring_linker): the mapping it leaves
LinkHref(attribs, lk) ==
    IF "href" \notin DOMAIN attribs THEN attribs
    ELSE LET name == HrefName(attribs["href"])
         IN  IF name = None THEN attribs
             ELSE LET url == UrlFor(lk, name)
                  IN  IF Truthy(url)
                      THEN [attribs EXCEPT !["href"] = url]
                      ELSE [k \in DOMAIN attribs \ {"href"} |-> attribs[k]]

\* `for x in items: self._link_href(x.attribs, docstring_linker)`
LinkEach(items, lk) ==
    [i \in DOMAIN items |-> [items[i] EXCEPT !.attribs = LinkHref(@, lk)]]

HREF == <<"h","r","e","f">>

\* the pattern "href\s*=\s*['\"]?<([\w\.]+)>['\"]?\s*(,?)" tried at position i
\* of s: whether it matches, its groups and the position after the match.
\* No part of the pattern can take a character the next part needs, so the
\* greedy match is the only one.
MatchPlaceholder(s, i) ==
    LET b == SkipSpaces(s, i + 4)
        c == SkipSpaces(s, b + 1)
        d == IF IsQuote(At(s, c)) THEN c + 1 ELSE c
        e == SkipName(s, d + 1)
        f == IF IsQuote(At(s, e + 1)) THEN e + 2 ELSE e + 1
        g == SkipSpaces(s, f)
        h == IF At(s, g) = "," THEN g + 1 ELSE g
    IN  IF /\ i + 3 <= Len(s)
           /\ SubSeq(s, i, i + 3) = HREF
           /\ At(s, b) = "="
           /\ At(s, d) = "<"
           /\ e > d + 1
           /\ At(s, e) = ">"
        THEN [ok |-> TRUE, name |-> SubSeq(s, d + 1, e - 1),
              comma |-> SubSeq(s, g, h - 1), end |-> h]
        ELSE [ok |-> FALSE, name |-> <<>>, comma |-> <<>>, end |-> i]

\* subfunc(m): 'href="%s"%s' % (url, m.group(2)) if url else ''
SubFunc(m, lk) ==
    LET url == UrlFor(lk, m.name)
    IN  IF Truthy(url)
        THEN HREF \o <<"=", "\"">> \o url \o <<"\"">> \o m.comma
        ELSE <<>>

\* re.sub(pattern, subfunc, s) from position i on: the matches are taken
\* left to right, each search starting where the previous match ended
RECURSIVE LinkBody(_, _, _)
LinkBody(s, i, lk) ==
    IF i > Len(s) THEN <<>>
    ELSE LET m == MatchPlaceholder(s, i)
         IN  IF m.ok
             THEN SubFunc(m, lk) \o LinkBody(s, m.end, lk)
             ELSE <<s[i]>> \o LinkBody(s, i + 1, lk)

\* the names of the placeholders re.sub finds in s from position i on
RECURSIVE PlaceholderNames(_, _)
PlaceholderNames(s, i) ==
    IF i > Len(s) THEN {}
    ELSE LET m == MatchPlaceholder(s, i)
         IN  IF m.ok
             THEN {m.name} \cup PlaceholderNames(s, m.end)
             ELSE PlaceholderNames(s, i + 1)

\* Strings of the graphs link is run on.
PH_A == <<"<","a",">">>
PH_AB == <<"<","a",".","b",">">>
PH_X == <<"<","x",">">>
URL_U == <<"u",".","h","t","m","l">>
URL_V == <<"v",".","h","t","m","l","#","b">>
LABEL == <<"l">>

\* docstring linkers: url_for of the names a and a.b (None for any other name)
Linkers ==
    [ {<<"a">>, <<"a",".","b">>} -> {None, <<>>, URL_U} ]

\* attribute mappings of nodes and edges
ItemAttribs ==
    { [label |-> LABEL],
      [label |-> LABEL, href |-> PH_A],
      [label |-> LABEL, href |-> PH_AB],
      [href |-> PH_X] }

\* default attribute mappings, with href values the pattern must not match
DefaultAttribs ==
    { [shape |-> <<"b","o","x">>],
      [href |-> PH_A],
      [href |-> PH_AB \o <<"\n">>],
      [href |-> <<"<","a"," ","b",">">>],
      [href |-> <<"<",">">>],
      [href |-> <<"a">>],
      [href |-> URL_V] }

Bodies ==
    { <<>>,
      \* a -> b [href="<a>", label=l]
      <<"a"," ","-",">"," ","b"," ","[">> \o HREF \o <<"=","\"">> \o PH_A
          \o <<"\"",","," ","l","a","b","e","l","=","l","]">>,
      \* href = '<a.b>' ,href=<x>
      HREF \o <<" ","="," ","'">> \o PH_AB \o <<"'"," ",",">>
          \o HREF \o <<"=">> \o PH_X,
      \* href=<a b> href<a>
      HREF \o <<"=","<","a"," ","b",">"," ">> \o HREF \o PH_A,
      \* href=href=<a><a.b>
      HREF \o <<"=">> \o HREF \o <<"=">> \o PH_A \o PH_AB }

MaxItems == 2
MaxLinkCalls == 2

SeqsUpTo(S, lo, hi) == UNION {[1..n -> S] : n \in lo..hi}

\* the graph the body and the default mappings are varied on
ONE_NODE == <<[id |-> 0, attribs |-> [label |-> LABEL, href |-> PH_AB]]>>
ONE_EDGE == <<[start |-> 0, end |-> 0, attribs |-> [href |-> PH_A]]>>

\* A graph to link: its nodes and edges vary, or its default mappings, or
\* its body.
InitLink ==
    /\ _uids = {} /\ graphs = <<>>
    /\ linker \in Linkers
    /\ linkCalls = 0
    /\ \/ /\ body = <<>>
          /\ node_defaults = [shape |-> <<"b","o","x">>]
          /\ edge_defaults = [href |-> PH_A]
          /\ \E as \in SeqsUpTo(ItemAttribs, 1, MaxItems) :
                nodes = [i \in DOMAIN as |-> [id |-> i - 1, attribs |-> as[i]]]
          /\ \E as \in SeqsUpTo(ItemAttribs, 0, MaxItems) :
                edges = [i \in DOMAIN as |->
                            [start |-> 0, end |-> 0, attribs |-> as[i]]]
       \/ /\ body = <<>>
          /\ node_defaults \in DefaultAttribs
          /\ edge_defaults \in DefaultAttribs
          /\ nodes = ONE_NODE
          /\ edges = ONE_EDGE
       \/ /\ body \in Bodies
          /\ node_defaults = [href |-> PH_A]
          /\ edge_defaults = [href |-> PH_AB]
          /\ nodes = ONE_NODE
          /\ edges = ONE_EDGE
    /\ orig = [body |-> body, node_defaults |-> node_defaults,
               edge_defaults |-> edge_defaults, nodes |-> nodes, edges |-> edges]
    /\ IdleRender
    /\ IdleBuild

\* link(docstring_linker), lines 107-128.  The loop of lines 119-120 runs
\* over self.nodes: it links the nodes a second time and leaves the edges.
Link ==
    /\ linkCalls < MaxLinkCalls
    /\ node_defaults' = LinkHref(node_defaults, linker)
    /\ edge_defaults' = LinkHref(edge_defaults, linker)
    /\ nodes' = LinkEach(LinkEach(nodes, linker), linker)
    /\ edges' = edges
    /\ body' = LinkBody(body, 1, linker)
    /\ linkCalls' = linkCalls + 1
    /\ UNCHANGED <<uidVars, linker, orig, renderVars, buildVars>>

NextLink == Link

SpecLink == InitLink /\ [][NextLink]_vars

IsPlaceholder(attribs) ==
    "href" \in DOMAIN attribs /\ HrefName(attribs["href"]) # None

\* what the claim says link leaves of a mapping
Resolved(attribs, lk) ==
    IF ~IsPlaceholder(attribs) THEN attribs
    ELSE IF Truthy(UrlFor(lk, HrefName(attribs["href"])))
         THEN [attribs EXCEPT !["href"] = UrlFor(lk, HrefName(attribs["href"]))]
         ELSE [k \in DOMAIN attribs \ {"href"} |-> attribs[k]]

(***************************************************************************)
(* C2: after one call of link no node, no edge and neither default         *)
(* mapping still has an href of the form <name>: each has been replaced    *)
(* by url_for(name), or deleted when that is no URL; for the edges as for  *)
(* the nodes.                                                              *)
(***************************************************************************)
C2_LinkResolvesNodesAndEdges ==
    linkCalls >= 1 =>
        /\ node_defaults = Resolved(orig.node_defaults, linker)
        /\ edge_defaults = Resolved(orig.edge_defaults, linker)
        /\ \A i \in DOMAIN nodes :
              nodes[i].attribs = Resolved(orig.nodes[i].attribs, linker)
        /\ \A i \in DOMAIN edges :
              /\ ~IsPlaceholder(edges[i].attribs)
              /\ edges[i].attribs = Resolved(orig.edges[i].attribs, linker)

\* The part of C2 the code does keep: the nodes and the two default mappings.
LinkResolvesNodes ==
    linkCalls >= 1 =>
        /\ node_defaults = Resolved(orig.node_defaults, linker)
        /\ edge_defaults = Resolved(orig.edge_defaults, linker)
        /\ \A i \in DOMAIN nodes :
              /\ ~IsPlaceholder(nodes[i].attribs)
              /\ nodes[i].attribs = Resolved(orig.nodes[i].attribs, linker)

BodyAllResolved ==
    \A name \in PlaceholderNames(orig.body, 1) : Truthy(UrlFor(linker, name))

PyTrue == <<"True">>
PyFalse == <<"False">>

MaxIn == 2      \* chunks of to_dotfile()
MaxOut == 2     \* chunks the child writes to its standard output
MaxErr == 1     \* chunks the child writes to its standard error
PipeCap == 1    \* chunks a pipe holds

InitRender ==
    /\ _uids = {} /\ graphs = <<>>
    /\ IdleGraph
    /\ IdleLink
    /\ popen4 \in BOOLEAN
    /\ rpc = "spawn"
    /\ alive = FALSE /\ exitval = 0
    /\ stdinLeft \in 1..MaxIn /\ stdinBuf = 0
    /\ outBuf = <<>> /\ errBuf = <<>> /\ outClosed = FALSE
    /\ nOut = 0 /\ nErr = 0 /\ written = <<>>
    /\ readAcc = <<>> /\ result = <<>> /\ ret = UNSET /\ warnings = 0
    /\ fileOpen = FALSE /\ fileOpens = 0 /\ fileData = OLD /\ wret = UNSET
    /\ IdleBuild

\* ---- the subprocess
ChildReadStdin ==
    /\ alive /\ stdinBuf > 0
    /\ stdinBuf' = stdinBuf - 1
    /\ UNCHANGED <<alive, exitval, outBuf, errBuf, outClosed, nOut, nErr, written,
                   renderEnv, parentVars, fileVars>>

ChildWriteOut ==
    /\ alive /\ ~outClosed /\ nOut < MaxOut /\ Len(outBuf) < PipeCap
    /\ outBuf' = Append(outBuf, DIGITS[nOut + 2])
    /\ written' = Append(written, DIGITS[nOut + 2])
    /\ nOut' = nOut + 1
    /\ UNCHANGED <<alive, exitval, stdinBuf, errBuf, outClosed, nErr,
                   renderEnv, parentVars, fileVars>>

\* Popen gives standard error a pipe of its own (stderr=PIPE); Popen4 sends
\* it into the pipe of standard output
ChildWriteErr ==
    /\ alive /\ nErr < MaxErr
    /\ IF popen4
       THEN /\ Len(outBuf) < PipeCap
            /\ outBuf' = Append(outBuf, "e")
            /\ errBuf' = errBuf
       ELSE /\ Len(errBuf) < PipeCap
            /\ errBuf' = Append(errBuf, "e")
            /\ outBuf' = outBuf
    /\ nErr' = nErr + 1
    /\ UNCHANGED <<alive, exitval, stdinBuf, outClosed, nOut, written,
                   renderEnv, parentVars, fileVars>>

ChildCloseStdout ==
    /\ alive /\ ~outClosed
    /\ outClosed' = TRUE
    /\ UNCHANGED <<alive, exitval, stdinBuf, outBuf, errBuf, nOut, nErr, written,
                   renderEnv, parentVars, fileVars>>

ChildExit(code) ==
    /\ alive
    /\ alive' = FALSE
    /\ exitval' = code
    /\ UNCHANGED <<stdinBuf, outBuf, errBuf, outClosed, nOut, nErr, written,
                   renderEnv, parentVars, fileVars>>

\* ---- render, lines 160-185
\* Popen(cmd, stdin=PIPE, stdout=PIPE, stderr=PIPE) or Popen4(cmd)
Spawn ==
    /\ rpc = "spawn"
    /\ alive' = TRUE
    /\ rpc' = "write_stdin"
    /\ UNCHANGED <<exitval, stdinBuf, outBuf, errBuf, outClosed, nOut, nErr,
                   written, stdinLeft, readAcc, result, ret, warnings,
                   renderEnv, fileVars>>

\* to_child.write(self.to_dotfile()): a chunk enters the pipe; writing to
\* the pipe of a child that has exited raises IOError (EPIPE), which render
\* does not catch, so it leaves render and write
WriteStdin ==
    /\ rpc = "write_stdin" /\ stdinLeft > 0
    /\ IF alive
       THEN /\ stdinBuf < PipeCap
            /\ stdinBuf' = stdinBuf + 1
            /\ stdinLeft' = stdinLeft - 1
            /\ UNCHANGED <<rpc, wret>>
       ELSE /\ rpc' = "raised"
            /\ wret' = RAISED
            /\ UNCHANGED <<stdinBuf, stdinLeft>>
    /\ UNCHANGED <<alive, exitval, outBuf, errBuf, outClosed, nOut, nErr, written,
                   readAcc, result, ret, warnings, renderEnv,
                   fileOpen, fileOpens, fileData>>

\* to_child.close(); result = ''
CloseStdin ==
    /\ rpc = "write_stdin" /\ stdinLeft = 0
    /\ result' = <<>>
    /\ rpc' = "poll"
    /\ UNCHANGED <<childVars, stdinLeft, readAcc, ret, warnings, renderEnv, fileVars>>

\* `while pipe.poll() is None:` -- Popen.poll() is None while the child
\* runs; Popen4.poll() is -1 while it runs, so the loop body never runs
PollNext == IF ~popen4 /\ alive THEN "loop_read" ELSE "final_read"

Poll ==
    /\ rpc = "poll"
    /\ rpc' = PollNext
    /\ UNCHANGED <<childVars, stdinLeft, readAcc, result, ret, warnings,
                   renderEnv, fileVars>>

\* from_child is at end of file: nothing is buffered and no process holds
\* the write end (with Popen4 the child's standard error holds it too)
AtEOF == outBuf = <<>> /\ (~alive \/ (outClosed /\ ~popen4))

\* from_child.read() reads until end of file: it takes what the pipe holds
ReadDrain ==
    /\ rpc \in {"loop_read", "final_read"}
    /\ outBuf # <<>>
    /\ readAcc' = readAcc \o outBuf
    /\ outBuf' = <<>>
    /\ UNCHANGED <<alive, exitval, stdinBuf, errBuf, outClosed, nOut, nErr, written,
                   rpc, stdinLeft, result, ret, warnings, renderEnv, fileVars>>

\* ... and returns at end of file: result += from_child.read()
ReadReturn ==
    /\ rpc \in {"loop_read", "final_read"}
    /\ AtEOF
    /\ result' = result \o readAcc
    /\ readAcc' = <<>>
    /\ rpc' = IF rpc = "loop_read" THEN "poll" ELSE "wait"
    /\ UNCHANGED <<childVars, stdinLeft, ret, warnings, renderEnv, fileVars>>

\* exitval = pipe.wait(); if exitval: log.warning(...); return None
\* return result
Wait ==
    /\ rpc = "wait" /\ ~alive
    /\ IF exitval # 0
       THEN /\ warnings' = warnings + 1
            /\ ret' = None
       ELSE /\ warnings' = warnings
            /\ ret' = result
    /\ rpc' = "rendered"
    /\ UNCHANGED <<childVars, stdinLeft, readAcc, result, renderEnv, fileVars>>

\* ---- write, lines 145-152
\* s = self.render(language); if s is not None: out = open(filename, 'w')
\* else: return False.  open may fail (IOError), and then no file is open.
WriteOpen(ok) ==
    /\ rpc = "rendered" /\ ret # None
    /\ IF ok
       THEN /\ fileOpen' = TRUE
            /\ fileOpens' = fileOpens + 1
            /\ fileData' = <<>>
            /\ rpc' = "file_write"
            /\ wret' = wret
       ELSE /\ rpc' = "raised"
            /\ wret' = RAISED
            /\ UNCHANGED <<fileOpen, fileOpens, fileData>>
    /\ UNCHANGED <<childVars, stdinLeft, readAcc, result, ret, warnings, renderEnv>>

WriteReturnFalse ==
    /\ rpc = "rendered" /\ ret = None
    /\ wret' = PyFalse
    /\ rpc' = "returned"
    /\ UNCHANGED <<childVars, stdinLeft, readAcc, result, ret, warnings, renderEnv,
                   fileOpen, fileOpens, fileData>>

\* A repair of write: the file is closed when out.write(s) fails.
AfterFailedWriteClosed == FALSE

\* whether `out` is still open when out.write(s) raises: no statement of
\* write closes it (out.close() is skipped by the exception)
AfterFailedWriteOpen == TRUE

\* out.write(s): it may fail (IOError: disk full, ...), and the exception
\* leaves write
WriteData(ok) ==
    /\ rpc = "file_write"
    /\ IF ok
       THEN /\ fileData' = ret
            /\ rpc' = "file_close"
            /\ UNCHANGED <<fileOpen, wret>>
       ELSE /\ rpc' = "raised"
            /\ wret' = RAISED
            /\ fileOpen' = AfterFailedWriteOpen
            /\ fileData' = fileData
    /\ UNCHANGED <<childVars, stdinLeft, readAcc, result, ret, warnings, renderEnv,
                   fileOpens>>

\* out.close(); return True
WriteClose ==
    /\ rpc = "file_close"
    /\ fileOpen' = FALSE
    /\ wret' = PyTrue
    /\ rpc' = "returned"
    /\ UNCHANGED <<childVars, stdinLeft, readAcc, result, ret, warnings, renderEnv,
                   fileOpens, fileData>>

NextRender ==
    \/ ChildReadStdin
    \/ ChildWriteOut
    \/ ChildWriteErr
    \/ ChildCloseStdout
    \/ \E code \in {0, 1} : ChildExit(code)
    \/ Spawn
    \/ WriteStdin
    \/ CloseStdin
    \/ Poll
    \/ ReadDrain
    \/ ReadReturn
    \/ Wait
    \/ \E ok \in BOOLEAN : WriteOpen(ok)
    \/ WriteReturnFalse
    \/ \E ok \in BOOLEAN : WriteData(ok)
    \/ WriteClose

SpecRender == InitRender /\ [][NextRender]_vars

\* render has been left by an exception
RenderRaised == rpc = "raised" /\ ret = UNSET

(***************************************************************************)
(* C3: render does not raise because of the renderer's exit status: when   *)
(* the renderer exits with a nonzero code render logs one warning and      *)
(* returns None; when it exits with code zero render returns exactly what  *)
(* the renderer wrote to its standard output, nothing lost or duplicated.  *)
(***************************************************************************)
C3_RenderResult ==
    /\ ~(RenderRaised /\ ~alive /\ exitval # 0)
    /\ (ret # UNSET /\ exitval # 0) => (ret = None /\ warnings = 1)
    /\ (ret # UNSET /\ exitval = 0) => (ret = written /\ warnings = 0)

\* What the code does keep of C3: once the whole input has been written,
\* a nonzero exit gives None and one warning, and with subprocess.Popen a
\* zero exit gives exactly the standard output.
RenderResultOnceInputWritten ==
    /\ (ret # UNSET /\ exitval # 0) => (ret = None /\ warnings = 1)
    /\ (ret # UNSET /\ exitval = 0 /\ (~popen4 \/ nErr = 0)) =>
            (ret = written /\ warnings = 0)

(***************************************************************************)
(* C4: write returns True exactly when render returned a result and False  *)
(* otherwise; when render fails the file is neither opened nor modified;   *)
(* and a file that was opened is closed on every path that leaves write,   *)
(* the path where writing the data fails included.                         *)
(***************************************************************************)
C4_WriteResult ==
    /\ (wret = PyTrue) => (ret # UNSET /\ ret # None)
    /\ (wret = PyFalse) => (ret = None)
    /\ (rpc = "returned") => (wret \in {PyTrue, PyFalse})
    /\ (ret \in {None, UNSET}) => (fileOpens = 0 /\ fileData = OLD /\ ~fileOpen)
    /\ (rpc \in {"returned", "raised"}) => ~fileOpen

\* What the code does keep of C4: everything but the closing of the file on
\* the path where out.write(s) raises.
WriteResultButClose ==
    /\ (wret = PyTrue) => (ret # UNSET /\ ret # None)
    /\ (wret = PyFalse) => (ret = None)
    /\ (rpc = "returned") => (wret \in {PyTrue, PyFalse} /\ ~fileOpen)
    /\ (ret \in {None, UNSET}) => (fileOpens = 0 /\ fileData = OLD /\ ~fileOpen)
    /\ (wret = PyTrue) => (fileData = ret /\ fileOpens = 1)

(***************************************************************************)
(* The graph builders: package_tree_graph, class_tree_graph, import_graph  *)
(* and add_valdoc_nodes.  An entity (a ModuleDoc or ClassDoc) is named by  *)
(* its canonical name, a dotted name: a sequence of identifiers.           *)
(***************************************************************************)
A == <<"a">>
A_B == <<"a","b">>
A_C == <<"a","c">>
A_B_C == <<"a","b","c">>

\* the modules / classes of the object model the tree builders are given
TreeEnt == {A, A_B, A_C}
\* the dotted names of the object model import_graph is given
ImportNames == {A, A_B, A_B_C}
\* the dotted names a module may import
ImportRefs == {A, A_B, A_B_C, A_C}

DIR_LR == <<"L","R">>
DIR_RL == <<"R","L">>
DIR_TB == <<"T","B">>
DirOptions == {None, DIR_LR, DIR_RL, DIR_TB}

MaxRoots == 2         \* length of `packages` / `bases`
MaxPathsPerRoot == 4  \* queue entries one root may cause before the cap
MaxModules == 2       \* length of import_graph's `modules`

\* the cap of the model on the length of `queue`
MaxQueue == MaxRoots * MaxPathsPerRoot

IsInjective(q) == \A i, j \in DOMAIN q : i # j => q[i] # q[j]

\* the lists without repetition over S
NoDupSeqs(S) == {q \in SeqsUpTo(S, 0, Cardinality(S)) : IsInjective(q)}

\* the lists of imports a module may have
ImportLists ==
    { <<>>, <<A_B_C>>, <<A_B_C, A_B>>, <<A_C>>, <<A_C, A_B_C>>, <<A_B, A_B>> }

\* url_for(val_doc) of the linkers the builders are given
NO_LINKS == [e \in TreeEnt \cup ImportNames |-> None]
SOME_LINKS == [e \in TreeEnt \cup ImportNames |-> IF e = A_B THEN None ELSE URL_U]

\* the object models of the tree builders: any roots, any submodules /
\* subclasses relation without self loops (cycles and shared children
\* included)
TreeModel ==
    /\ packages \in SeqsUpTo(TreeEnt, 0, MaxRoots)
    /\ submodules \in [TreeEnt -> NoDupSeqs(TreeEnt)]
    /\ \A e \in TreeEnt : e \notin Range(submodules[e])
    /\ docindex = {}
    /\ imodules = <<>>
    /\ imports = [m \in ImportNames |-> <<>>]

\* the object models of import_graph: any set of known modules, any list of
\* them, any imports of the listed ones
ImportModel ==
    /\ packages = <<>>
    /\ submodules = [e \in TreeEnt |-> <<>>]
    /\ docindex \in SUBSET ImportNames
    /\ imodules \in SeqsUpTo(docindex, 0, MaxModules)
    /\ imports \in [ImportNames -> ImportLists]
    /\ \A m \in ImportNames \ Range(imodules) : imports[m] = <<>>

\* Either the object model varies, under one choice of options, context
\* and linker, or these vary over one object model (the options, the
\* context and the linker do not meet the traversal in the code).
InitBuild ==
    /\ _uids = {} /\ graphs = <<>>
    /\ IdleGraph
    /\ linkCalls = 0 /\ orig = None
    /\ IdleRender
    /\ kind \in {"package", "class", "import"}
    /\ \/ /\ options = None /\ context = A /\ linker = SOME_LINKS
          /\ IF kind = "import" THEN ImportModel ELSE TreeModel
       \/ /\ options \in DirOptions
          /\ context \in {None, A, A_B}
          /\ linker \in {NO_LINKS, SOME_LINKS}
          /\ packages = IF kind = "import" THEN <<>> ELSE <<A>>
          /\ submodules = [e \in TreeEnt |->
                IF e = A /\ kind # "import" THEN <<A_C, A_B>> ELSE <<>>]
          /\ docindex = IF kind = "import" THEN {A, A_B} ELSE {}
          /\ imodules = IF kind = "import" THEN <<A_B, A>> ELSE <<>>
          /\ imports = [m \in ImportNames |->
                IF m = A /\ kind = "import" THEN <<A_B_C>> ELSE <<>>]
    /\ bpc = "start"
    /\ queue = <<>> /\ qi = 1 /\ modules = {}
    /\ expanded = [e \in TreeEnt |-> 0]
    /\ nodes_dict = NoAttribs /\ pending = {} /\ edges_set = {}
    /\ _next_id = 0

TITLE_PACKAGE == <<"P","a","c","k","a","g","e"," ","T","r","e","e">>
TITLE_CLASS == <<"C","l","a","s","s"," ","H","i","e","r","a","r","c","h","y">>
TITLE_IMPORT == <<"I","m","p","o","r","t"," ","G","r","a","p","h">>
RANKDIR == <<"r","a","n","k","d","i","r","=">>

\* A slip in the defaults: import_graph given the default of the tree builders.
DefaultDirAllLR(k) == DIR_LR

\* the default of options.get('dir', ...): 'LR' (lines 259, 289), 'RL' (line 315)
DefaultDir(k) == IF k = "import" THEN DIR_RL ELSE DIR_LR

\* options.get('dir', default)
GetDir(k, opt) == IF opt = None THEN DefaultDir(k) ELSE opt

\* if options.get('dir', default) != 'TB':
\*     graph.body += 'rankdir=%s\n' % options.get('dir', default)
WithRankdir(b, k, opt) ==
    IF GetDir(k, opt) # DIR_TB
    THEN b \o RANKDIR \o GetDir(k, opt) \o <<"\n">>
    ELSE b

\* DotGraph(title, node_defaults={...}, edge_defaults={...}) and the options
NewGraph(title) ==
    /\ bpc = "start"
    /\ LET uid == NewUid(title, _uids)
       IN  /\ _uids' = _uids \cup {uid}
           /\ graphs' = Append(graphs, [title |-> title, uid |-> uid])
    /\ node_defaults' = [shape |-> <<"b","o","x">>, width |-> 0, height |-> 0]
    /\ edge_defaults' = [sametail |-> TRUE]
    /\ nodes' = <<>>
    /\ edges' = <<>>
    /\ body' = WithRankdir(<<>>, kind, options)
    /\ UNCHANGED <<linkVars, renderVars, modelVars, expanded, nodes_dict,
                   pending, edges_set, _next_id>>

\* package_tree_graph, lines 254-264: the graph, the options,
\* queue = list(packages), modules = Set(packages)
PackageTreeStart ==
    /\ kind = "package"
    /\ NewGraph(TITLE_PACKAGE)
    /\ queue' = packages
    /\ modules' = Range(packages)
    /\ qi' = 1
    /\ bpc' = "collect"

\* class_tree_graph, lines 284-294
ClassTreeStart ==
    /\ kind = "class"
    /\ NewGraph(TITLE_CLASS)
    /\ queue' = packages
    /\ modules' = Range(packages)
    /\ qi' = 1
    /\ bpc' = "collect"

\* import_graph, lines 310-316
ImportStart ==
    /\ kind = "import"
    /\ NewGraph(TITLE_IMPORT)
    /\ UNCHANGED <<queue, modules, qi>>
    /\ bpc' = "nodes"

\* What the loop would be if it skipped what is collected already.
ExtendUnseen(q, subs, seen) ==
    q \o SelectSeq(subs, LAMBDA x : x \notin seen)

\* queue.extend(module.submodules)
Extend(q, subs, seen) == q \o subs

\* One turn of `for module in queue:` (lines 265-267, 295-297):
\*     queue.extend(module.submodules); modules.update(module.submodules)
\* The model stops a queue that would pass MaxQueue.
Collect ==
    /\ bpc = "collect"
    /\ qi <= Len(queue)
    /\ LET module == queue[qi]
           q == Extend(queue, submodules[module], modules)
       IN  /\ expanded' = [expanded EXCEPT ![module] = @ + 1]
           /\ IF Len(q) > MaxQueue
              THEN /\ bpc' = "overflow"
                   /\ UNCHANGED <<queue, modules, qi>>
              ELSE /\ queue' = q
                   /\ modules' = modules \cup Range(submodules[module])
                   /\ qi' = qi + 1
                   /\ bpc' = bpc
    /\ UNCHANGED <<uidVars, graphVars, linkVars, renderVars, modelVars,
                   nodes_dict, pending, edges_set, _next_id>>

\* the rank of a one-letter identifier in the order of strings
IdRank(x) == CHOOSE i \in DOMAIN LOWER : LOWER[i] = x

\* m < n for dotted names: the order of their identifier sequences
RECURSIVE NameLess(_, _)
NameLess(m, n) ==
    IF m = <<>> THEN n # <<>>
    ELSE IF n = <<>> THEN FALSE
    ELSE IF Head(m) = Head(n) THEN NameLess(Tail(m), Tail(n))
    ELSE IdRank(Head(m)) < IdRank(Head(n))

\* the lists iterating over a Set may give: its elements in any order
ListsOf(S) == {q \in NoDupSeqs(S) : Range(q) = S}

RemoveAt(q, i) == SubSeq(q, 1, i - 1) \o SubSeq(q, i + 1, Len(q))

\* A slip in add_valdoc_nodes: the val_docs are taken as they come.
Unsorted(q) == q

\* sorted(val_docs, key=lambda d: d.canonical_name): stable
RECURSIVE Sorted(_)
Sorted(q) ==
    IF q = <<>> THEN <<>>
    ELSE LET i == CHOOSE i \in DOMAIN q :
                     /\ \A j \in DOMAIN q : ~NameLess(q[j], q[i])
                     /\ \A j \in 1..(i - 1) : NameLess(q[i], q[j])
         IN  <<q[i]>> \o Sorted(RemoveAt(q, i))

\* A slip in DotGraphNode.__init__: the counter is not advanced.
NodeIdStuck(next, i) == next

\* the id of the i-th DotGraphNode created from counter value `next`:
\* self.id = _next_id; _next_id += 1
NodeId(next, i) == next + (i - 1)

\* the node add_valdoc_nodes makes for val_doc (lines 342-349)
NodeFor(val_doc, id, lk, ctx) ==
    [ id |-> id,
      attribs |->
        IF val_doc = ctx
        THEN [label |-> val_doc, fillcolor |-> <<"b","l","a","c","k">>,
              fontcolor |-> <<"w","h","i","t","e">>,
              style |-> <<"f","i","l","l","e","d">>]
        ELSE IF Truthy(UrlFor(lk, val_doc))
             THEN [label |-> val_doc, href |-> UrlFor(lk, val_doc)]
             ELSE [label |-> val_doc] ]

\* add_valdoc_nodes(graph, val_docs, linker, context): the nodes appended
\* to graph.nodes, in order
NewNodes(val_docs, lk, ctx, next) ==
    LET q == Sorted(val_docs)
    IN  [i \in DOMAIN q |-> NodeFor(q[i], NodeId(next, i), lk, ctx)]

\* ... and the dict it returns: nodes[val_doc] = node, the last one made
\* for val_doc winning
NodesDict(val_docs, new) ==
    LET q == Sorted(val_docs)
    IN  [v \in Range(q) |->
            new[CHOOSE i \in DOMAIN q :
                    q[i] = v /\ \A j \in DOMAIN q : q[j] = v => j <= i].id]

AddValdocNodes(val_docs) ==
    LET new == NewNodes(val_docs, linker, context, _next_id)
    IN  /\ nodes' = nodes \o new
        /\ nodes_dict' = NodesDict(val_docs, new)
        /\ _next_id' = _next_id + Len(new)

\* the loop over queue has ended; nodes = add_valdoc_nodes(graph, modules,
\* linker, context) (lines 270, 300); the loop over the Set modules begins
TreeAddNodes ==
    /\ bpc = "collect"
    /\ qi > Len(queue)
    /\ \E val_docs \in ListsOf(modules) : AddValdocNodes(val_docs)
    /\ pending' = modules
    /\ bpc' = "edges"
    /\ UNCHANGED <<uidVars, body, node_defaults, edge_defaults, edges, linkVars,
                   renderVars, modelVars, queue, qi, modules, expanded, edges_set>>

\* DotGraphEdge(start, end)
Edge(start, end) == [start |-> start, end |-> end, attribs |-> NoAttribs]

\* One turn of `for module in modules:` (lines 273-275, 303-305), the Set
\* giving its elements in any order:
\*     for submodule in module.submodules:
\*         graph.edges.append(DotGraphEdge(nodes[module], nodes[submodule]))
TreeEdges(module) ==
    /\ bpc = "edges"
    /\ module \in pending
    /\ edges' = edges \o
            [i \in DOMAIN submodules[module] |->
                Edge(nodes_dict[module], nodes_dict[submodules[module][i]])]
    /\ pending' = pending \ {module}
    /\ UNCHANGED <<uidVars, body, node_defaults, edge_defaults, nodes, linkVars,
                   renderVars, modelVars, bpc, queue, qi, modules, expanded,
                   nodes_dict, edges_set, _next_id>>

\* return graph
BuilderReturn ==
    /\ bpc \in {"edges", "iedges"}
    /\ pending = {}
    /\ bpc' = "done"
    /\ UNCHANGED <<uidVars, graphVars, linkVars, renderVars, modelVars, queue, qi,
                   modules, expanded, nodes_dict, pending, edges_set, _next_id>>

\* nodes = add_valdoc_nodes(graph, modules, linker, context) (line 319);
\* edges = Set() (line 322)
ImportAddNodes ==
    /\ bpc = "nodes"
    /\ AddValdocNodes(imodules)
    /\ edges_set' = {}
    /\ qi' = 1
    /\ bpc' = "resolve"
    /\ UNCHANGED <<uidVars, body, node_defaults, edge_defaults, edges, linkVars,
                   renderVars, modelVars, queue, modules, expanded, pending>>

\* isinstance(docindex.get_valdoc(name), ModuleDoc)
IsModule(name) == name \in docindex

\* A slip in the loop: the prefixes are tried from the shortest.
ResolveShortest(var_name, i) ==
    LET hits == {j \in 1..Len(var_name) : IsModule(SubSeq(var_name, 1, j))}
    IN  IF hits = {} THEN None
        ELSE SubSeq(var_name, 1, CHOOSE j \in hits : \A k \in hits : j <= k)

\* for i in range(len(var_name), 0, -1):
\*     val_doc = docindex.get_valdoc(DottedName(*var_name[:i]))
\*     if isinstance(val_doc, ModuleDoc): ...; break
\* from i down: the module found, or None when the loop ends without one
RECURSIVE Resolve(_, _)
Resolve(var_name, i) ==
    IF i < 1 THEN None
    ELSE IF IsModule(SubSeq(var_name, 1, i)) THEN SubSeq(var_name, 1, i)
    ELSE Resolve(var_name, i - 1)

\* One turn of `for dst in modules:` (lines 323-329)
ImportResolve ==
    /\ bpc = "resolve"
    /\ qi <= Len(imodules)
    /\ LET dst == imodules[qi]
           found == {Resolve(imports[dst][k], Len(imports[dst][k])) :
                        k \in DOMAIN imports[dst]} \ {None}
       IN  edges_set' = edges_set \cup {<<src, dst>> : src \in found}
    /\ qi' = qi + 1
    /\ UNCHANGED <<uidVars, graphVars, linkVars, renderVars, modelVars, bpc, queue,
                   modules, expanded, nodes_dict, pending, _next_id>>

\* the loop over modules has ended; the loop over the Set edges begins
ImportResolved ==
    /\ bpc = "resolve"
    /\ qi > Len(imodules)
    /\ pending' = edges_set
    /\ bpc' = "iedges"
    /\ UNCHANGED <<uidVars, graphVars, linkVars, renderVars, modelVars, queue, qi,
                   modules, expanded, nodes_dict, edges_set, _next_id>>

\* One turn of `for (src, dst) in edges:` (lines 331-333), in any order:
\*     if src in nodes and dst in nodes:
\*         graph.edges.append(DotGraphEdge(nodes[src], nodes[dst]))
ImportEdges(e) ==
    /\ bpc = "iedges"
    /\ e \in pending
    /\ edges' = IF e[1] \in DOMAIN nodes_dict /\ e[2] \in DOMAIN nodes_dict
                THEN Append(edges, Edge(nodes_dict[e[1]], nodes_dict[e[2]]))
                ELSE edges
    /\ pending' = pending \ {e}
    /\ UNCHANGED <<uidVars, body, node_defaults, edge_defaults, nodes, linkVars,
                   renderVars, modelVars, bpc, queue, qi, modules, expanded,
                   nodes_dict, edges_set, _next_id>>

NextBuild ==
    \/ PackageTreeStart
    \/ ClassTreeStart
    \/ ImportStart
    \/ Collect
    \/ TreeAddNodes
    \/ \E module \in TreeEnt : TreeEdges(module)
    \/ ImportAddNodes
    \/ ImportResolve
    \/ ImportResolved
    \/ \E e \in ImportNames \X ImportNames : ImportEdges(e)
    \/ BuilderReturn

SpecBuild == InitBuild /\ [][NextBuild]_vars

IsTree == kind \in {"package", "class"}

Children(m) == Range(submodules[m])

\* the entities reachable from those of S through submodules / subclasses
RECURSIVE ReachFrom(_)
ReachFrom(S) ==
    LET T == S \cup UNION {Children(m) : m \in S}
    IN  IF T = S THEN S ELSE ReachFrom(T)

Reach == ReachFrom(Range(packages))

\* a cycle of the relation can be reached from the roots
Cyclic == \E e \in Reach : e \in ReachFrom(Children(e))

NodeIds == {nodes[i].id : i \in DOMAIN nodes}
Labels == [i \in DOMAIN nodes |-> nodes[i].attribs.label]
LabelOfId(id) == nodes[CHOOSE i \in DOMAIN nodes : nodes[i].id = id].attribs.label

\* the edges of the graph as (label of start, label of end)
EdgePairs ==
    {<<LabelOfId(edges[i].start), LabelOfId(edges[i].end)>> : i \in DOMAIN edges}

Ascending(q) == \A i \in 1..(Len(q) - 1) : NameLess(q[i], q[i + 1])

(***************************************************************************)
(* C5: the graph package_tree_graph / class_tree_graph returns has exactly *)
(* one node per distinct entity reachable from the roots, labelled with    *)
(* its canonical name, the nodes in ascending order of canonical name, and *)
(* exactly one edge parent -> child per (entity, child) pair among them;   *)
(* nodes and edges are the same whatever the order of roots, children and  *)
(* set iteration.                                                          *)
(***************************************************************************)
C5_TreeGraph ==
    (IsTree /\ bpc = "done") =>
        LET rel == {pc \in Reach \X Reach : pc[2] \in Children(pc[1])}
        IN  /\ Range(Labels) = Reach
            /\ Len(nodes) = Cardinality(Reach)
            /\ Ascending(Labels)
            /\ \A i \in DOMAIN edges :
                  edges[i].start \in NodeIds /\ edges[i].end \in NodeIds
            /\ EdgePairs = rel
            /\ Len(edges) = Cardinality(rel)

\* a returned tree graph of three entities, one of them a child of the two
\* others, the children listed against the order of their names
C5_Witness ==
    /\ IsTree /\ bpc = "done"
    /\ submodules[A] = <<A_C, A_B>>
    /\ A_C \in Children(A_B)
    /\ A \in Range(packages)
    /\ Len(nodes) = 3 /\ Len(edges) = 3

\* the prefixes of a dotted name that denote modules
ModulePrefixes(v) == {SubSeq(v, 1, j) : j \in 1..Len(v)} \cap docindex

LongestModulePrefix(v) ==
    CHOOSE p \in ModulePrefixes(v) : \A q \in ModulePrefixes(v) : Len(q) <= Len(p)

(***************************************************************************)
(* C6: in the graph import_graph returns, the edges are exactly the pairs  *)
(* (src, dst) where dst is one of the modules given, src is the module     *)
(* named by the longest prefix of one of dst's imports that denotes a      *)
(* module, and both have nodes; one edge per pair, however many imports    *)
(* give it.                                                                *)
(***************************************************************************)
C6_ImportEdges ==
    (kind = "import" /\ bpc = "done") =>
        LET refs == {dv \in Range(imodules) \X ImportRefs :
                        /\ dv[2] \in Range(imports[dv[1]])
                        /\ ModulePrefixes(dv[2]) # {}}
            want == {e \in {<<LongestModulePrefix(dv[2]), dv[1]>> : dv \in refs} :
                        e[1] \in Range(imodules)}
        IN  /\ EdgePairs = want
            /\ Len(edges) = Cardinality(want)

\* import_graph returned; a module imports a.b.c and a.b, where a and a.b
\* are modules and a.b.c is not: both imports gave the one edge from a.b
C6_Witness ==
    /\ kind = "import" /\ bpc = "done"
    /\ docindex = {A, A_B}
    /\ \E dst \in Range(imodules) :
          /\ imports[dst] = <<A_B_C, A_B>>
          /\ A_B \in Range(imodules)
          /\ <<A_B, dst>> \in EdgePairs
          /\ <<A, dst>> \notin EdgePairs
          /\ Len(edges) = 1

\* the number of queue entries an entry for e causes, itself included
RECURSIVE Paths(_)
RECURSIVE SumPaths(_)
Paths(e) == 1 + SumPaths(submodules[e])
SumPaths(q) == IF q = <<>> THEN 0 ELSE Paths(Head(q)) + SumPaths(Tail(q))

Count(q, x) == Cardinality({i \in DOMAIN q : q[i] = x})

\* the number of paths from an entry of `packages` to e
RECURSIVE PathsTo(_)
RECURSIVE SumPathsTo(_, _)
PathsTo(e) ==
    Count(packages, e) + SumPathsTo({p \in TreeEnt : e \in Children(p)}, e)
SumPathsTo(P, e) ==
    IF P = {} THEN 0
    ELSE LET p == CHOOSE p \in P : TRUE
         IN  (IF p \in Reach THEN PathsTo(p) ELSE 0) + SumPathsTo(P \ {p}, e)

(***************************************************************************)
(* C8 as stated, for roots listed once each: the collection loop takes     *)
(* each entity from the queue at most once and the queue never holds more  *)
(* entries than there are entities, also when the relation has a cycle or  *)
(* an entity has several parents.                                          *)
(***************************************************************************)
C8_ExpandedOnce ==
    (IsTree /\ IsInjective(packages)) =>
        /\ \A e \in TreeEnt : expanded[e] <= 1
        /\ Len(queue) <= Cardinality(TreeEnt)

(***************************************************************************)
(* C8 amended: the Set of collected entities holds each entity reachable   *)
(* from the roots once, and when no cycle can be reached from the roots    *)
(* the loop ends: the queue gets one entry, and the entity one turn of the *)
(* loop, for every path from an entry of the roots to it -- more than one  *)
(* for an entity with several parents.  When a cycle can be reached the    *)
(* builder does not get past the loop (the queue grows to any cap).        *)
(* The loop ends because each turn advances the position in the queue,     *)
(* which the number of paths bounds.                                       *)
(***************************************************************************)
CollectByPaths ==
    IsTree =>
        /\ modules \subseteq Reach
        /\ bpc \in {"edges", "done"} => modules = Reach
        /\ Cyclic => bpc \in {"start", "collect", "overflow"}
        /\ ~Cyclic =>
              /\ bpc # "overflow"
              /\ qi <= Len(queue) + 1
              /\ Len(queue) <= SumPaths(packages)
              /\ \A e \in TreeEnt : expanded[e] <= PathsTo(e)
              /\ bpc \in {"edges", "done"} =>
                    /\ Len(queue) = SumPaths(packages)
                    /\ \A e \in Reach : expanded[e] = PathsTo(e)

C8_CollectByPaths ==
    /\ []CollectByPaths
    /\ [][(IsTree /\ ~Cyclic /\ bpc = "collect") =>
             \/ qi' = qi + 1 /\ bpc' = "collect"
             \/ qi > Len(queue) /\ bpc' = "edges"]_vars

\* a tree builder returned for roots listed once each, having taken an
\* entity with two parents from the queue twice
C8_Witness ==
    /\ IsTree /\ bpc = "done"
    /\ IsInjective(packages)
    /\ \E e \in TreeEnt :
          /\ expanded[e] = 2
          /\ Cardinality({p \in Reach : e \in Children(p)}) = 2
    /\ Len(queue) > Cardinality(Reach)

\* the body holds a rankdir directive
HasRankdir ==
    \E i \in DOMAIN body :
        i + 7 <= Len(body) /\ SubSeq(body, i, i + 7) = RANKDIR

(***************************************************************************)
(* C9 as stated: a builder adds `rankdir=<dir>` to the body only when the  *)
(* requested dir differs from its default (LR for the tree builders, RL    *)
(* for import_graph); with dir omitted or equal to the default the body    *)
(* holds no rankdir directive.                                             *)
(***************************************************************************)
C9_RankdirUnlessDefault ==
    bpc # "start" =>
        (HasRankdir <=>
            /\ options # None
            /\ options # (IF kind = "import" THEN DIR_RL ELSE DIR_LR))

(***************************************************************************)
(* C9 amended: a builder adds `rankdir=<dir>` to the body exactly when the *)
(* direction in effect -- the requested dir, or the builder's default (LR  *)
(* for the tree builders, RL for import_graph) when dir is omitted --      *)
(* differs from TB; so with dir omitted or equal to the default the body   *)
(* is `rankdir=<default>`, and only dir='TB' leaves the body empty.        *)
(***************************************************************************)
C9_RankdirUnlessTB ==
    bpc # "start" =>
        LET dir == IF options # None THEN options
                   ELSE IF kind = "import" THEN DIR_RL ELSE DIR_LR
        IN  body = IF dir = DIR_TB THEN <<>> ELSE RANKDIR \o dir \o <<"\n">>

\* import_graph returned, called without dir: the body is `rankdir=RL`
C9_Witness ==
    /\ bpc = "done" /\ kind = "import"
    /\ options = None
    /\ body = RANKDIR \o DIR_RL \o <<"\n">>

(***************************************************************************)
(* C10: in the graph of every builder the start node and the end node of   *)
(* every edge are nodes of graph.nodes, and the nodes of graph.nodes have  *)
(* pairwise distinct ids.                                                  *)
(***************************************************************************)
C10_EdgesReferToNodes ==
    /\ \A i \in DOMAIN edges :
          edges[i].start \in NodeIds /\ edges[i].end \in NodeIds
    /\ \A i, j \in DOMAIN nodes : i # j => nodes[i].id # nodes[j].id

\* import_graph returned a graph with an edge, having dropped an import
\* whose source module has no node; a module given twice has two nodes
C10_Witness ==
    /\ kind = "import" /\ bpc = "done"
    /\ Len(edges) >= 1
    /\ \E e \in edges_set : e[1] \notin DOMAIN nodes_dict
    /\ ~IsInjective(Labels)

=============================================================================
